---- MODULE Spec2Model ----
\* Cost tracking store (server/storage.ts), its REST handlers (server routes)
\* and the insert schemas (shared/schema.ts), modelled as a state machine.
EXTENDS Integers, Sequences, FiniteSets, TLC

\* ---------------------------------------------------------------------------
\* Bounds of the model.
\* ---------------------------------------------------------------------------
MaxProjects == 2
MaxCostCodes == 2
MaxCostEntries == 2
MaxTime == 1
MaxBodyFields == 2
MaxInFlight == 2

\* ---------------------------------------------------------------------------
\* JavaScript numbers (IEEE-754 binary64) for the money values of the model.
\* decimal(12,2) columns reach the program as decimal strings; Number(...)
\* turns a string into the nearest double (ties to even) and + and - round
\* the exact result to 53 significant bits (ties to even).
\*
\* Every double of magnitude in [0.01, 2^12) is a whole multiple of 2^-59, and
\* so is every sum or difference of such doubles, so a double is held as
\* [neg, mag]: mag is the magnitude in units of 2^-59, a natural number of up
\* to 72 bits kept as three 24-bit limbs <<high, middle, low>> because the
\* integers of the checker are 32-bit.
\* ---------------------------------------------------------------------------
Limb == 2^24
HalfLimb == 2^23
FracBits == 59
BZero == <<0, 0, 0>>
BOne == <<0, 0, 1>>

BAdd(x, y) ==
    LET s3 == x[3] + y[3]
        s2 == x[2] + y[2] + (s3 \div Limb)
        s1 == x[1] + y[1] + (s2 \div Limb)
    IN  <<s1, s2 % Limb, s3 % Limb>>

\* x - y for x >= y
BSub(x, y) ==
    LET d3 == x[3] - y[3]
        b3 == IF d3 < 0 THEN 1 ELSE 0
        d2 == x[2] - y[2] - b3
        b2 == IF d2 < 0 THEN 1 ELSE 0
        d1 == x[1] - y[1] - b2
    IN  <<d1, d2 + b2 * Limb, d3 + b3 * Limb>>

BLess(x, y) ==
    \/ x[1] < y[1]
    \/ x[1] = y[1] /\ x[2] < y[2]
    \/ x[1] = y[1] /\ x[2] = y[2] /\ x[3] < y[3]

BOdd(x) == x[3] % 2 = 1

BHalf(x) ==
    << x[1] \div 2,
       (x[1] % 2) * HalfLimb + (x[2] \div 2),
       (x[2] % 2) * HalfLimb + (x[3] \div 2) >>

BDouble(x) == BAdd(x, x)

RECURSIVE BShiftLeft(_, _)
BShiftLeft(x, k) == IF k = 0 THEN x ELSE BShiftLeft(BDouble(x), k - 1)

\* 53 significant bits fit exactly when the value is below 2^53 = 32 * 2^48.
Fits53(x) == x[1] < 32

\* Round x to 53 significant bits, ties to even.  `round` is the bit dropped
\* last and `sticky` tells whether any bit dropped before it was set.
RECURSIVE BRoundLoop(_, _, _, _)
BRoundLoop(x, round, sticky, k) ==
    IF Fits53(x)
    THEN LET up == round /\ (sticky \/ BOdd(x))
             r == IF up THEN BAdd(x, BOne) ELSE x
         IN  BShiftLeft(r, k)
    ELSE BRoundLoop(BHalf(x), BOdd(x), sticky \/ round, k + 1)

BRound53(x) == BRoundLoop(x, FALSE, FALSE, 0)

\* Number("<cents/100 written with two decimals>"): the double nearest to
\* cents/100.  The quotient cents * 2^60 / 100 (one bit more than the unit, so
\* that at least one bit is rounded away) is produced by long division limb
\* by limb; a remainder makes the sticky bit.  cents < 4096.
DivBy100(x) ==
    LET q1 == x[1] \div 100
        r1 == x[1] % 100
        n2 == r1 * Limb + x[2]
        q2 == n2 \div 100
        r2 == n2 % 100
        n3 == r2 * Limb + x[3]
    IN  << <<q1, q2, n3 \div 100>>, n3 % 100 >>

NumberOfCents(cents) ==
    LET a == IF cents < 0 THEN 0 - cents ELSE cents
        d == DivBy100(<<a * 2^(FracBits + 1 - 48), 0, 0>>)
        m == BHalf(BRoundLoop(d[1], FALSE, d[2] # 0, 0))
    IN  [neg |-> cents < 0 /\ m # BZero, mag |-> m]

DZero == [neg |-> FALSE, mag |-> BZero]

DNeg(x) == IF x.mag = BZero THEN x ELSE [neg |-> ~x.neg, mag |-> x.mag]

\* x + y in binary64 (the sum of two zeros is +0 here: no -0 arises)
DAdd(x, y) ==
    IF x.neg = y.neg
    THEN [neg |-> x.neg /\ x.mag # BZero, mag |-> BRound53(BAdd(x.mag, y.mag))]
    ELSE IF x.mag = y.mag THEN DZero
    ELSE IF BLess(y.mag, x.mag)
         THEN [neg |-> x.neg, mag |-> BRound53(BSub(x.mag, y.mag))]
         ELSE [neg |-> y.neg, mag |-> BRound53(BSub(y.mag, x.mag))]

DSub(x, y) == DAdd(x, DNeg(y))

DLess(x, y) ==
    IF x.neg /\ ~y.neg THEN TRUE
    ELSE IF ~x.neg /\ y.neg THEN FALSE
    ELSE IF x.neg THEN BLess(y.mag, x.mag)
    ELSE BLess(x.mag, y.mag)

\* ---------------------------------------------------------------------------
\* The store: one function per table of shared/schema.ts, from the primary
\* key to the columns the operations below read or write.
\* ---------------------------------------------------------------------------
VARIABLES projects, costCodes, costEntries, changeOrders, nextId, now, resp,
          summaryCall, putCalls, queryData

vars == <<projects, costCodes, costEntries, changeOrders, nextId, now, resp,
          summaryCall, putCalls, queryData>>

Null == "null"

Users == {"u1", "u2"}
Categories == {"labor", "materials", "equipment"}
Statuses == {"pending", "approved", "rejected"}
Amounts == {10, 20}
Budgets == {30}

ProjectIds == 1..MaxProjects
CostCodeIds == 1..MaxCostCodes
CostEntryIds == 1..MaxCostEntries
\* the primary keys gen_random_uuid() hands to change orders in this model;
\* the handlers address one row by its key and rows do not interact
ChangeOrderIds == {1}

Init ==
    /\ projects = <<>>
    /\ costCodes = <<>>
    /\ costEntries = <<>>
    /\ changeOrders = <<>>
    /\ nextId = [projects |-> 1, costEntries |-> 1]
    /\ now = 0
    /\ resp = [op |-> "none"]
    /\ summaryCall = [pc |-> "idle"]
    /\ putCalls = <<>>
    /\ queryData = [u \in Users |-> <<>>]

\* f with key k bound to v (insert or replace a row)
Put(f, k, v) == [x \in DOMAIN f \cup {k} |-> IF x = k THEN v ELSE f[x]]

\* f without key k (delete a row)
Drop(f, k) == [x \in DOMAIN f \ {k} |-> f[x]]

\* new Date(): the clock only moves forward
Tick ==
    /\ now < MaxTime
    /\ now' = now + 1
    /\ resp' = [op |-> "tick"]
    /\ UNCHANGED <<projects, costCodes, costEntries, changeOrders, nextId>>

\* ---------------------------------------------------------------------------
\* Projects, cost codes and cost entries (DatabaseStorage).  A statement that
\* violates a foreign key throws and changes nothing; references() without
\* onDelete is ON DELETE NO ACTION.
\* ---------------------------------------------------------------------------
createProject(budget) ==
    /\ nextId.projects <= MaxProjects
    /\ projects' = Put(projects, nextId.projects, [budget |-> budget])
    /\ nextId' = [nextId EXCEPT !.projects = @ + 1]
    /\ resp' = [op |-> "createProject", id |-> nextId.projects, threw |-> FALSE]
    /\ UNCHANGED <<costCodes, costEntries, changeOrders, now>>

updateProject(id, budget) ==
    /\ projects' = IF id \in DOMAIN projects
                      THEN [projects EXCEPT ![id].budget = budget]
                      ELSE projects
    /\ resp' = [op |-> "updateProject", id |-> id, threw |-> FALSE]
    /\ UNCHANGED <<costCodes, costEntries, changeOrders, nextId, now>>

\* changeOrders.projectId declared without references()
ProjectReferenced_EntriesOnly(id) ==
    \E e \in DOMAIN costEntries : costEntries[e].projectId = id

ProjectReferenced(id) ==
    \/ \E e \in DOMAIN costEntries : costEntries[e].projectId = id
    \/ \E c \in DOMAIN changeOrders : changeOrders[c].projectId = id

deleteProject(id) ==
    /\ projects' = IF ProjectReferenced(id) THEN projects ELSE Drop(projects, id)
    /\ resp' = [op |-> "deleteProject", id |-> id, threw |-> ProjectReferenced(id)]
    /\ UNCHANGED <<costCodes, costEntries, changeOrders, nextId, now>>

createCostCode(category, isActive) ==
    /\ Cardinality(DOMAIN costCodes) < MaxCostCodes
    /\ costCodes' = Put(costCodes, Cardinality(DOMAIN costCodes) + 1,
                        [category |-> category, isActive |-> isActive])
    /\ resp' = [op |-> "createCostCode", id |-> Cardinality(DOMAIN costCodes) + 1,
                threw |-> FALSE]
    /\ UNCHANGED <<projects, costEntries, changeOrders, nextId, now>>

\* costEntries.costCodeId declared without references()
CostEntryRefsOk_ProjectOnly(row) == row.projectId \in DOMAIN projects

CostEntryRefsOk(row) ==
    /\ row.projectId \in DOMAIN projects
    /\ row.costCodeId \in DOMAIN costCodes

createCostEntry(row) ==
    /\ nextId.costEntries <= MaxCostEntries
    /\ IF CostEntryRefsOk(row)
       THEN /\ costEntries' = Put(costEntries, nextId.costEntries, row)
            /\ nextId' = [nextId EXCEPT !.costEntries = @ + 1]
       ELSE UNCHANGED <<costEntries, nextId>>
    /\ resp' = [op |-> "createCostEntry", id |-> nextId.costEntries,
                threw |-> ~CostEntryRefsOk(row)]
    /\ UNCHANGED <<projects, costCodes, changeOrders, now>>

\* .set({ ...patch, updatedAt }): the columns present in the patch are
\* written, the others keep their value
Patched(row, patch) ==
    [k \in DOMAIN row |-> IF k \in DOMAIN patch THEN patch[k] ELSE row[k]]

updateCostEntry(id, patch) ==
    LET hit == id \in DOMAIN costEntries
        row == Patched(costEntries[id], patch)
        ok == hit => CostEntryRefsOk(row)
    IN  /\ costEntries' = IF hit /\ ok THEN [costEntries EXCEPT ![id] = row]
                             ELSE costEntries
        /\ resp' = [op |-> "updateCostEntry", id |-> id, threw |-> ~ok]
        /\ UNCHANGED <<projects, costCodes, changeOrders, nextId, now>>

\* a delete that keeps the row (a tombstone) instead of removing it
deleteCostEntry_Tombstone(id) ==
    /\ resp' = [op |-> "deleteCostEntry", id |-> id, threw |-> FALSE]
    /\ UNCHANGED <<projects, costCodes, costEntries, changeOrders, nextId, now>>

deleteCostEntry(id) ==
    /\ costEntries' = Drop(costEntries, id)
    /\ resp' = [op |-> "deleteCostEntry", id |-> id, threw |-> FALSE]
    /\ UNCHANGED <<projects, costCodes, changeOrders, nextId, now>>

\* entryDate is a Date the caller chooses; the rows of the cost summary all
\* carry the same one
CostEntryRows ==
    [projectId : ProjectIds, costCodeId : CostCodeIds, amount : Amounts, entryDate : {0}]

\* patches that change one column
CostEntryPatches ==
    [projectId : ProjectIds] \cup [costCodeId : CostCodeIds] \cup [amount : Amounts]

\* ---------------------------------------------------------------------------
\* getProjectCostSummary and GET /api/projects/:id/cost-summary
\* ---------------------------------------------------------------------------
RECURSIVE SumAmount(_)
SumAmount(S) ==
    IF S = {} THEN 0
    ELSE LET e == CHOOSE x \in S : TRUE
         IN  costEntries[e].amount + SumAmount(S \ {e})

\* a join that also asks for an active cost code
JoinedEntries_ActiveOnly(projectId) ==
    {e \in DOMAIN costEntries :
        /\ costEntries[e].projectId = projectId
        /\ costEntries[e].costCodeId \in DOMAIN costCodes
        /\ costCodes[costEntries[e].costCodeId].isActive}

\* rows of: costEntries INNER JOIN costCodes ON costCodeId = costCodes.id
\*          WHERE costEntries.projectId = projectId
JoinedEntries(projectId) ==
    {e \in DOMAIN costEntries :
        /\ costEntries[e].projectId = projectId
        /\ costEntries[e].costCodeId \in DOMAIN costCodes}

GroupEntries(projectId, category) ==
    {e \in JoinedEntries(projectId) :
        costCodes[costEntries[e].costCodeId].category = category}

\* GROUP BY costCodes.category: one row per category that has a joined entry,
\* SUM(amount) is exact decimal arithmetic (here: whole cents)
GroupCategories(projectId) ==
    {c \in Categories : GroupEntries(projectId, c) # {}}

\* the orders in which the driver may hand back the grouped rows
RowOrders(S) ==
    {s \in [1..Cardinality(S) -> S] : \A i, j \in DOMAIN s : s[i] = s[j] => i = j}

\* the loop with totalCost = amount in place of totalCost += amount
RECURSIVE SummaryLoop_Assign(_, _, _, _)
SummaryLoop_Assign(projectId, order, i, acc) ==
    IF i > Len(order) THEN acc
    ELSE LET amount == NumberOfCents(SumAmount(GroupEntries(projectId, order[i])))
         IN  SummaryLoop_Assign(projectId, order, i + 1,
                 [costByCategory |-> Put(acc.costByCategory, order[i], amount),
                  keys |-> Append(acc.keys, order[i]),
                  totalCost |-> amount])

\* for (const item of costSummary) { amount = Number(item.totalAmount);
\*   costByCategory[item.category] = amount; totalCost += amount; }
RECURSIVE SummaryLoop(_, _, _, _)
SummaryLoop(projectId, order, i, acc) ==
    IF i > Len(order) THEN acc
    ELSE LET amount == NumberOfCents(SumAmount(GroupEntries(projectId, order[i])))
         IN  SummaryLoop(projectId, order, i + 1,
                 [costByCategory |-> Put(acc.costByCategory, order[i], amount),
                  keys |-> Append(acc.keys, order[i]),
                  totalCost |-> DAdd(acc.totalCost, amount)])

\* the operands of the subtraction exchanged
BudgetVariance_Swapped(budget, totalCost) == DSub(totalCost, budget)

BudgetVariance(budget, totalCost) == DSub(budget, totalCost)

\* stands for the row of a project that does not exist
NoProject == [budget |-> 0]

\* lines 195-211, given the project row that getProject returned
CostSummaryOf(project, projectId, order) ==
    LET acc == SummaryLoop(projectId, order, 1,
                   [costByCategory |-> <<>>, keys |-> <<>>, totalCost |-> DZero])
        budget == NumberOfCents(project.budget)
    IN  [totalCost |-> acc.totalCost,
         costByCategory |-> acc.costByCategory,
         keys |-> acc.keys,
         budgetVariance |-> BudgetVariance(budget, acc.totalCost)]

CostSummary(projectId, order) == CostSummaryOf(projects[projectId], projectId, order)

\* the call without lines 181-183: a missing project counts as an empty row
getProjectCostSummary_NoCheck(projectId) ==
    /\ \E order \in RowOrders(GroupCategories(projectId)) :
           resp' = [op |-> "getProjectCostSummary", id |-> projectId, code |-> 200,
                    summary |-> CostSummaryOf(IF projectId \in DOMAIN projects
                                                 THEN projects[projectId]
                                                 ELSE NoProject,
                                              projectId, order)]
    /\ UNCHANGED <<projects, costCodes, costEntries, changeOrders, nextId, now>>

\* the whole call with no other request in between, behind its route: error is
\* what the method threw (and the route logs), message what the route answers
getProjectCostSummary(projectId) ==
    /\ IF projectId \notin DOMAIN projects
       THEN resp' = [op |-> "getProjectCostSummary", id |-> projectId, code |-> 500,
                     error |-> "Project not found",
                     message |-> "Failed to fetch cost summary"]
       ELSE \E order \in RowOrders(GroupCategories(projectId)) :
               resp' = [op |-> "getProjectCostSummary", id |-> projectId, code |-> 200,
                        summary |-> CostSummary(projectId, order)]
    /\ UNCHANGED <<projects, costCodes, costEntries, changeOrders, nextId, now>>

\* ---------------------------------------------------------------------------
\* getProjectCostSummary next to other requests.  The method awaits two
\* statements, getProject and the grouped SUM, each of which sees one state of
\* the store; other requests run between them.  summaryCall is the call in
\* flight: where it stands, the project row its first statement returned, and
\* (for the properties) the states of the store it has lived through.
\* ---------------------------------------------------------------------------
\* what a state of the store holds for a project: its row and the exact sum
\* of each category
StoreSnapshot(projectId) ==
    [project |-> IF projectId \in DOMAIN projects THEN projects[projectId] ELSE NoProject,
     sums |-> [c \in GroupCategories(projectId) |->
                  SumAmount(GroupEntries(projectId, c))]]

\* a step of another request: the call in flight lives through its result
\* (a state whose project row is not the row the call read is no candidate
\* for the state the call's result is of, and is not kept)
ObserveStore ==
    IF summaryCall.pc = "idle" THEN UNCHANGED summaryCall
    ELSE \E id \in {summaryCall.id} :
            summaryCall' = [summaryCall EXCEPT
                               !.snapshots = @ \cup
                                   {s \in {StoreSnapshot(id)'} :
                                       s.project = summaryCall.project}]

\* a request that runs from its start to its response in one step: the calls
\* in flight stay where they are
Observe == ObserveStore /\ UNCHANGED <<putCalls, queryData>>

\* const project = await this.getProject(projectId); if (!project) throw ...
SummaryGetProject(projectId) ==
    /\ summaryCall.pc = "idle"
    /\ IF projectId \notin DOMAIN projects
       THEN /\ resp' = [op |-> "getProjectCostSummary", id |-> projectId, code |-> 500,
                        error |-> "Project not found",
                        message |-> "Failed to fetch cost summary"]
            /\ UNCHANGED summaryCall
       ELSE /\ resp' = [op |-> "getProject", id |-> projectId]
            /\ summaryCall' = [pc |-> "sum", id |-> projectId,
                               project |-> projects[projectId],
                               snapshots |-> {StoreSnapshot(projectId)}]
    /\ UNCHANGED <<projects, costCodes, costEntries, changeOrders, nextId, now, putCalls,
                   queryData>>

\* const costSummary = await db.select(...)...groupBy(...); the loop; return
SummaryAggregate ==
    /\ summaryCall.pc = "sum"
    /\ \E order \in RowOrders(GroupCategories(summaryCall.id)) :
           resp' = [op |-> "getProjectCostSummary", id |-> summaryCall.id, code |-> 200,
                    summary |-> CostSummaryOf(summaryCall.project, summaryCall.id, order),
                    used |-> [project |-> summaryCall.project,
                              sums |-> StoreSnapshot(summaryCall.id).sums],
                    snapshots |-> summaryCall.snapshots]
    /\ summaryCall' = [pc |-> "idle"]
    /\ UNCHANGED <<projects, costCodes, costEntries, changeOrders, nextId, now, putCalls,
                   queryData>>

\* budgets a project is revised to
RevisedBudgets == {40}

NextSnapshot ==
    \/ \E b \in Budgets : createProject(b) /\ Observe
    \/ \E id \in ProjectIds, b \in RevisedBudgets : updateProject(id, b) /\ Observe
    \/ \E id \in ProjectIds : deleteProject(id) /\ Observe
    \/ createCostCode("labor", TRUE) /\ Observe
    \/ \E row \in [projectId : ProjectIds, costCodeId : {1}, amount : {10},
                      entryDate : {0}] :
           createCostEntry(row) /\ Observe
    \/ \E id \in CostEntryIds, patch \in [amount : {20}] :
           updateCostEntry(id, patch) /\ Observe
    \/ \E id \in CostEntryIds : deleteCostEntry(id) /\ Observe
    \/ \E id \in ProjectIds : SummaryGetProject(id)
    \/ SummaryAggregate

SpecSnapshot == Init /\ [][NextSnapshot]_vars

NextCost ==
    \/ \E b \in Budgets : createProject(b) /\ Observe
    \/ \E c \in Categories, a \in BOOLEAN : createCostCode(c, a) /\ Observe
    \/ \E row \in CostEntryRows : createCostEntry(row) /\ Observe
    \/ \E id \in CostEntryIds, patch \in CostEntryPatches :
           updateCostEntry(id, patch) /\ Observe
    \/ \E id \in CostEntryIds : deleteCostEntry(id) /\ Observe
    \/ \E id \in ProjectIds : getProjectCostSummary(id) /\ Observe

SpecCost == Init /\ [][NextCost]_vars

\* ---------------------------------------------------------------------------
\* Change orders: POST /api/change-orders and PUT /api/change-orders/:id with
\* insertChangeOrderSchema, createChangeOrder and updateChangeOrder.
\*
\* A request body is a JSON object: a function from the keys it carries to
\* their values.  Text columns take JSON strings; a timestamp column is
\* z.date() in the insert schema, which takes a Date object (or null when the
\* column is nullable) and rejects the string a JSON body would carry.
\* Date-typed values are <<kind, time>> with kind "date" (a Date object),
\* "null" or "string".
\* ---------------------------------------------------------------------------
NullDate == 0 - 1
JsonNullDate == <<"null", 0>>
JsonDateString == <<"string", 0>>
DateObject(t) == <<"date", t>>

NoString == "<absent>"
NoDateValue == <<"absent", 0>>
NoId == 0

Field(k, v, none) == IF v = none THEN <<>> ELSE k :> v

\* request bodies name the first project, which exists once it is created and
\* stops existing when it is deleted
BodyProjectIds == {1}

\* the JSON objects that carry at most MaxBodyFields of the keys K
BodiesOver(K) ==
    LET Values(k, S) == IF k \in K THEN S ELSE {}
    IN  {b \in { Field("projectId", p, NoId) @@ Field("status", s, NoString)
                  @@ Field("requestedBy", r, NoString) @@ Field("approvedBy", a, NoString)
                  @@ Field("approvalDate", d, NoDateValue)
                  @@ Field("requestDate", q, NoDateValue) :
                     p \in Values("projectId", BodyProjectIds) \cup {NoId},
                     s \in Values("status", Statuses) \cup {NoString},
                     r \in Values("requestedBy", Users) \cup {NoString},
                     a \in Values("approvedBy", Users \cup {Null}) \cup {NoString},
                     d \in Values("approvalDate", {JsonNullDate, JsonDateString})
                              \cup {NoDateValue},
                     q \in Values("requestDate", {JsonNullDate, JsonDateString})
                              \cup {NoDateValue} } :
            Cardinality(DOMAIN b) <= MaxBodyFields}

\* bodies about who requested and who approved
ChangeOrderBodies ==
    BodiesOver({"projectId", "status", "requestedBy", "approvedBy", "approvalDate"})

\* bodies about when it was requested and approved
DatedBodies ==
    BodiesOver({"projectId", "status", "approvalDate", "requestDate"})

DateKeys == {"requestDate", "approvalDate"}
RequiredKeys == {"projectId", "requestedBy"}

\* insertChangeOrderSchema.parse / .partial().parse: TRUE when it does not throw
ParseOk(data, partial) ==
    /\ partial \/ RequiredKeys \subseteq DOMAIN data
    /\ \A k \in DOMAIN data \cap DateKeys : data[k][1] \in {"date", "null"}

\* the value a parsed key puts in its column
Column(k, v) ==
    IF k \in DateKeys THEN (IF v[1] = "date" THEN v[2] ELSE NullDate) ELSE v

Columns(data) == [k \in DOMAIN data |-> Column(k, data[k])]

ChangeOrderRefsOk(row) ==
    /\ row.projectId \in DOMAIN projects
    /\ row.requestedBy \in Users
    /\ row.approvedBy \in Users \cup {Null}

\* column defaults of the changeOrders table
ChangeOrderDefaults ==
    [status |-> "pending", approvedBy |-> Null, requestDate |-> now,
     approvalDate |-> NullDate]

\* db.insert(changeOrders).values(changeOrder).returning()
createChangeOrder(id, cols) ==
    IF ChangeOrderRefsOk(cols @@ ChangeOrderDefaults)
    THEN changeOrders' = Put(changeOrders, id, cols @@ ChangeOrderDefaults)
    ELSE UNCHANGED changeOrders

\* an update that refuses an approver who is the requester
updateChangeOrder_NotRequester(id, cols) ==
    IF /\ id \in DOMAIN changeOrders
       /\ ChangeOrderRefsOk(Patched(changeOrders[id], cols))
       /\ ~("approvedBy" \in DOMAIN cols
             /\ cols.approvedBy = Patched(changeOrders[id], cols).requestedBy)
    THEN changeOrders' = [changeOrders EXCEPT ![id] = Patched(@, cols)]
    ELSE UNCHANGED changeOrders

\* db.update(changeOrders).set({ ...changeOrder, updatedAt }).where(id = ...)
updateChangeOrder(id, cols) ==
    IF id \in DOMAIN changeOrders /\ ChangeOrderRefsOk(Patched(changeOrders[id], cols))
    THEN changeOrders' = [changeOrders EXCEPT ![id] = Patched(@, cols)]
    ELSE UNCHANGED changeOrders

\* the spread written the other way round: a requestedBy of the body survives
PostData_BodyWins(userId, body) == body @@ ("requestedBy" :> userId)

\* { ...req.body, requestedBy: userId }
PostData(userId, body) == ("requestedBy" :> userId) @@ body

PostChangeOrder(userId, body) ==
    LET data == PostData(userId, body)
        id == CHOOSE i \in ChangeOrderIds : i \notin DOMAIN changeOrders
    IN  /\ ChangeOrderIds \ DOMAIN changeOrders # {}
        /\ IF ParseOk(data, FALSE)
           THEN createChangeOrder(id, Columns(data))
           ELSE UNCHANGED changeOrders
        \* the request is kept with the 201 it produced; a 500 carries no body
        /\ resp' = IF ParseOk(data, FALSE)
                      /\ ChangeOrderRefsOk(Columns(data) @@ ChangeOrderDefaults)
                   THEN [op |-> "POST /api/change-orders", user |-> userId, id |-> id,
                         body |-> body, code |-> 201]
                   ELSE [op |-> "POST /api/change-orders", user |-> userId, id |-> id,
                         code |-> 500]
        /\ UNCHANGED <<projects, costCodes, costEntries, nextId, now>>

\* the spread written the other way round: approvedBy and approvalDate of the
\* body survive the stamp
PutData_BodyWins(userId, body) ==
    body @@ (IF "status" \in DOMAIN body /\ body.status = "approved"
             THEN [approvedBy |-> userId, approvalDate |-> DateObject(now)]
             ELSE <<>>)

\* the stamp without its approvalDate
PutData_NoDate(userId, body) ==
    (IF "status" \in DOMAIN body /\ body.status = "approved"
     THEN [approvedBy |-> userId]
     ELSE <<>>) @@ body

\* { ...req.body, ...(req.body.status === "approved" &&
\*                    { approvedBy: userId, approvalDate: new Date() }) }
PutData(userId, body) ==
    (IF "status" \in DOMAIN body /\ body.status = "approved"
     THEN [approvedBy |-> userId, approvalDate |-> DateObject(now)]
     ELSE <<>>) @@ body

PutChangeOrder(userId, id, body) ==
    LET data == PutData(userId, body)
        threw == \/ ~ParseOk(data, TRUE)
                 \/ /\ id \in DOMAIN changeOrders
                    /\ ~ChangeOrderRefsOk(Patched(changeOrders[id], Columns(data)))
    IN  /\ IF ParseOk(data, TRUE)
           THEN updateChangeOrder(id, Columns(data))
           ELSE UNCHANGED changeOrders
        /\ resp' = IF threw
                   THEN [op |-> "PUT /api/change-orders/:id", user |-> userId, id |-> id,
                         code |-> 500]
                   ELSE [op |-> "PUT /api/change-orders/:id", user |-> userId, id |-> id,
                         body |-> body, code |-> 200]
        /\ UNCHANGED <<projects, costCodes, costEntries, nextId, now>>

NextChangeOrders ==
    \/ \E b \in Budgets : createProject(b) /\ Observe
    \/ \E u \in Users, body \in ChangeOrderBodies : PostChangeOrder(u, body) /\ Observe
    \/ \E u \in Users, id \in ChangeOrderIds, body \in ChangeOrderBodies :
           PutChangeOrder(u, id, body) /\ Observe
    \/ Tick /\ Observe

SpecChangeOrders == Init /\ [][NextChangeOrders]_vars

NextRequestDate ==
    \/ \E b \in Budgets : createProject(b) /\ Observe
    \/ \E u \in Users, body \in DatedBodies : PostChangeOrder(u, body) /\ Observe
    \/ \E u \in Users, id \in ChangeOrderIds, body \in DatedBodies :
           PutChangeOrder(u, id, body) /\ Observe
    \/ Tick /\ Observe

SpecRequestDate == Init /\ [][NextRequestDate]_vars

\* ---------------------------------------------------------------------------
\* getCostEntries and getChangeOrders.  ORDER BY ... DESC leaves the order of
\* rows with equal dates open, and PostgreSQL puts NULL first.
\* ---------------------------------------------------------------------------
DescKey(date) == IF date = NullDate THEN MaxTime + 1 ELSE date

\* ORDER BY in ascending order
Ordered_Ascending(S, key) ==
    {s \in RowOrders(S) : \A i, j \in DOMAIN s : i < j => key[s[i]] <= key[s[j]]}

\* the sequences the rows S may come back in under orderBy(desc(...))
Ordered(S, key) ==
    {s \in RowOrders(S) : \A i, j \in DOMAIN s : i < j => key[s[i]] >= key[s[j]]}

\* if (projectId) { ...where(eq(table.projectId, projectId)) }
Filtered(table, projectId) ==
    {r \in DOMAIN table : projectId = NoId \/ table[r].projectId = projectId}

getCostEntries(projectId) ==
    LET S == Filtered(costEntries, projectId)
    IN  /\ \E rows \in Ordered(S, [e \in S |-> DescKey(costEntries[e].entryDate)]) :
               resp' = [op |-> "getCostEntries", projectId |-> projectId, rows |-> rows]
        /\ UNCHANGED <<projects, costCodes, costEntries, changeOrders, nextId, now>>

getChangeOrders(projectId) ==
    LET S == Filtered(changeOrders, projectId)
    IN  /\ \E rows \in Ordered(S, [c \in S |-> DescKey(changeOrders[c].requestDate)]) :
               resp' = [op |-> "getChangeOrders", projectId |-> projectId, rows |-> rows]
        /\ UNCHANGED <<projects, costCodes, costEntries, changeOrders, nextId, now>>

\* storage.createChangeOrder for a request that passed its schema; the
\* database hands out the key
InsertChangeOrder(id, cols) ==
    /\ id \notin DOMAIN changeOrders
    /\ createChangeOrder(id, cols)
    /\ resp' = [op |-> "createChangeOrder", id |-> id,
                threw |-> ~ChangeOrderRefsOk(cols @@ ChangeOrderDefaults)]
    /\ UNCHANGED <<projects, costCodes, costEntries, nextId, now>>

\* two days a caller dates an entry with
EntryDates == {0, 1}
ListedChangeOrderIds == {1, 2}
\* the projects whose rows are listed
ListedProjectIds == {1, 2}

NextLists ==
    \/ \E b \in Budgets : nextId.projects \in ListedProjectIds /\ createProject(b) /\ Observe
    \/ createCostCode("labor", TRUE) /\ Observe
    \/ \E row \in [projectId : ListedProjectIds, costCodeId : {1}, amount : {10},
                      entryDate : EntryDates] :
           createCostEntry(row) /\ Observe
    \/ \E id \in ListedChangeOrderIds, p \in BodyProjectIds :
           InsertChangeOrder(id, [projectId |-> p, requestedBy |-> "u1"]) /\ Observe
    \/ \E id \in ListedChangeOrderIds, p \in BodyProjectIds :
           InsertChangeOrder(id, [projectId |-> p, requestedBy |-> "u1",
                                  requestDate |-> NullDate]) /\ Observe
    \/ Tick /\ Observe
    \/ \E p \in ListedProjectIds \cup {NoId} : getCostEntries(p) /\ Observe
    \/ \E p \in ListedProjectIds \cup {NoId} : getChangeOrders(p) /\ Observe

SpecLists == Init /\ [][NextLists]_vars

\* ---------------------------------------------------------------------------
\* Writes followed by reads: every read is a query against the tables.
\* ---------------------------------------------------------------------------
NextRecompute ==
    \/ \E b \in Budgets : nextId.projects \in BodyProjectIds /\ createProject(b) /\ Observe
    \/ \E id \in BodyProjectIds, b \in RevisedBudgets : updateProject(id, b) /\ Observe
    \/ \E c \in {"labor", "materials"} : createCostCode(c, TRUE) /\ Observe
    \/ \E row \in [projectId : BodyProjectIds, costCodeId : {1},
                      amount : {10}, entryDate : {0}] :
           createCostEntry(row) /\ Observe
    \/ \E id \in CostEntryIds, patch \in [amount : {20}] \cup [costCodeId : CostCodeIds] :
           updateCostEntry(id, patch) /\ Observe
    \/ \E id \in CostEntryIds : deleteCostEntry(id) /\ Observe
    \/ \E id \in BodyProjectIds : getProjectCostSummary(id) /\ Observe
    \/ getCostEntries(NoId) /\ Observe

SpecRecompute == Init /\ [][NextRecompute]_vars

\* ---------------------------------------------------------------------------
\* getProject and GET /api/projects/:id
\* ---------------------------------------------------------------------------
Undefined == [undefined |-> TRUE]

\* db.select().from(projects).where(eq(projects.id, id))
SelectProject(id) == IF id \in DOMAIN projects THEN <<projects[id]>> ELSE <<>>

\* const [project] = ...; return project
getProject(id) == IF SelectProject(id) = <<>> THEN Undefined ELSE SelectProject(id)[1]

\* the route without its test of the project
GetProject_NoCheck(id) ==
    /\ resp' = [op |-> "GET /api/projects/:id", id |-> id, code |-> 200,
                project |-> getProject(id)]
    /\ UNCHANGED <<projects, costCodes, costEntries, changeOrders, nextId, now>>

GetProject(id) ==
    /\ resp' = IF getProject(id) = Undefined
               THEN [op |-> "GET /api/projects/:id", id |-> id, code |-> 404,
                     message |-> "Project not found"]
               ELSE [op |-> "GET /api/projects/:id", id |-> id, code |-> 200,
                     project |-> getProject(id)]
    /\ UNCHANGED <<projects, costCodes, costEntries, changeOrders, nextId, now>>

\* ---------------------------------------------------------------------------
\* The summary asked for ids that may or may not resolve to a project, while
\* projects and entries come and go.
\* ---------------------------------------------------------------------------
NextLookup ==
    \/ \E b \in Budgets : createProject(b) /\ Observe
    \/ \E id \in ProjectIds : deleteProject(id) /\ Observe
    \/ createCostCode("labor", TRUE) /\ Observe
    \/ \E row \in [projectId : ProjectIds, costCodeId : {1},
                      amount : Amounts, entryDate : {0}] :
           createCostEntry(row) /\ Observe
    \/ \E id \in CostEntryIds : deleteCostEntry(id) /\ Observe
    \/ \E id \in ProjectIds : getProjectCostSummary(id) /\ Observe
    \/ \E id \in ProjectIds : GetProject(id) /\ Observe

SpecLookup == Init /\ [][NextLookup]_vars

\* ---------------------------------------------------------------------------
\* The rows that reference other rows, with the operations that create,
\* re-point and delete them.
\* ---------------------------------------------------------------------------
ReferenceBodies == BodiesOver({"projectId"})

NextReferences ==
    \/ \E b \in Budgets : createProject(b) /\ Observe
    \/ \E id \in ProjectIds : deleteProject(id) /\ Observe
    \/ createCostCode("labor", TRUE) /\ Observe
    \/ \E row \in [projectId : ProjectIds, costCodeId : CostCodeIds, amount : {10},
                      entryDate : {0}] :
           createCostEntry(row) /\ Observe
    \/ \E id \in CostEntryIds, patch \in [projectId : ProjectIds] \cup [costCodeId : CostCodeIds] :
           updateCostEntry(id, patch) /\ Observe
    \/ \E id \in CostEntryIds : deleteCostEntry(id) /\ Observe
    \/ \E body \in ReferenceBodies : PostChangeOrder("u1", body) /\ Observe
    \/ \E id \in ChangeOrderIds, body \in ReferenceBodies :
           PutChangeOrder("u1", id, body) /\ Observe

SpecReferences == Init /\ [][NextReferences]_vars

\* ---------------------------------------------------------------------------
\* The routes behind their middleware: app.<verb>(path, isAuthenticated, handler).
\* isAuthenticated is imported from ./replitAuth; a request carries the
\* identity of a valid session or none.
\* ---------------------------------------------------------------------------
NoSession == "<no session>"
Sessions == Users \cup {NoSession}

isAuthenticated(session) == session \in Users

\* the middleware answers by itself and does not call next()
Unauthorized(path) ==
    /\ resp' = [op |-> path, code |-> 401, message |-> "Unauthorized"]
    /\ UNCHANGED <<projects, costCodes, costEntries, changeOrders, nextId, now,
                   summaryCall, putCalls, queryData>>

\* a route registered without the middleware
Route_NoGate(session, path, handler) == handler /\ Observe

Route(session, path, handler) ==
    IF isAuthenticated(session)
    THEN handler /\ Observe
    ELSE Unauthorized(path)

\* bodies that carry a status at most
StatusBodies == BodiesOver({"projectId", "status"})

\* req.user.claims.sub, for a request that reached its handler
Sub(session) == IF session \in Users THEN session ELSE Null

Request(session) ==
    \/ \E b \in Budgets :
           Route(session, "POST /api/projects",
                 nextId.projects \in BodyProjectIds /\ createProject(b))
    \/ \E id \in BodyProjectIds, b \in Budgets :
           Route(session, "PUT /api/projects/:id", updateProject(id, b))
    \/ \E id \in BodyProjectIds :
           Route(session, "DELETE /api/projects/:id", deleteProject(id))
    \/ Route(session, "POST /api/cost-codes", createCostCode("labor", TRUE))
    \/ \E row \in [projectId : BodyProjectIds, costCodeId : {1}, amount : {10},
                      entryDate : {0}] :
           Route(session, "POST /api/cost-entries", createCostEntry(row))
    \/ \E id \in CostEntryIds, patch \in [amount : {20}] :
           Route(session, "PUT /api/cost-entries/:id", updateCostEntry(id, patch))
    \/ \E id \in CostEntryIds :
           Route(session, "DELETE /api/cost-entries/:id", deleteCostEntry(id))
    \/ Route(session, "GET /api/cost-entries", getCostEntries(NoId))
    \/ Route(session, "GET /api/change-orders", getChangeOrders(NoId))
    \/ \E body \in StatusBodies :
           Route(session, "POST /api/change-orders", PostChangeOrder(Sub(session), body))
    \/ \E id \in ChangeOrderIds, body \in StatusBodies :
           Route(session, "PUT /api/change-orders/:id",
                 PutChangeOrder(Sub(session), id, body))
    \/ \E id \in BodyProjectIds :
           Route(session, "GET /api/projects/:id/cost-summary", getProjectCostSummary(id))

\* one identity with a session, and a request with none
GateSessions == {"u1", NoSession}

NextRoutes == \E session \in GateSessions : Request(session)

SpecRoutes == Init /\ [][NextRoutes]_vars

\* ---------------------------------------------------------------------------
\* Change orders requested and moved through the workflow by either user, with
\* bodies that carry a project and a status.
\* ---------------------------------------------------------------------------
NextWorkflow ==
    \/ \E b \in Budgets : createProject(b) /\ Observe
    \/ \E u \in Users, body \in StatusBodies : PostChangeOrder(u, body) /\ Observe
    \/ \E u \in Users, id \in ChangeOrderIds, body \in StatusBodies :
           PutChangeOrder(u, id, body) /\ Observe
    \/ Tick /\ Observe

SpecWorkflow == Init /\ [][NextWorkflow]_vars

\* ---------------------------------------------------------------------------
\* Change orders created with bodies that name a requester and updated with
\* bodies that name an approver or an approval date.
\* ---------------------------------------------------------------------------
RequesterBodies == BodiesOver({"projectId", "requestedBy"})
ApproverBodies == BodiesOver({"status", "approvedBy", "approvalDate"})

NextStamps ==
    \/ \E b \in Budgets : createProject(b) /\ Observe
    \/ \E u \in Users, body \in RequesterBodies : PostChangeOrder(u, body) /\ Observe
    \/ \E u \in Users, id \in ChangeOrderIds, body \in ApproverBodies :
           PutChangeOrder(u, id, body) /\ Observe
    \/ Tick /\ Observe

SpecStamps == Init /\ [][NextStamps]_vars

\* ---------------------------------------------------------------------------
\* Summaries of two projects whose entries are booked on an active and on an
\* inactive cost code.
\* ---------------------------------------------------------------------------
NextTotals ==
    \/ \E b \in Budgets : nextId.projects \in ListedProjectIds /\ createProject(b) /\ Observe
    \/ \E c \in {"labor", "materials"} : createCostCode(c, c = "labor") /\ Observe
    \/ \E row \in [projectId : ListedProjectIds, costCodeId : CostCodeIds,
                      amount : Amounts, entryDate : {0}] :
           createCostEntry(row) /\ Observe
    \/ \E id \in CostEntryIds : deleteCostEntry(id) /\ Observe
    \/ \E id \in ListedProjectIds : getProjectCostSummary(id) /\ Observe

SpecTotals == Init /\ [][NextTotals]_vars

\* ---------------------------------------------------------------------------
\* Change orders created and updated with bodies whose status is any string:
\* the column is a varchar and the insert schema takes it as a string.
\* ---------------------------------------------------------------------------
OtherStatus == "cancelled"
StatusStrings == Statuses \cup {OtherStatus}

AnyStatusBodies ==
    {Field("projectId", p, NoId) @@ Field("status", s, NoString) :
        p \in BodyProjectIds \cup {NoId}, s \in StatusStrings \cup {NoString}}

NextStatus ==
    \/ \E b \in Budgets : nextId.projects \in BodyProjectIds /\ createProject(b) /\ Observe
    \/ \E u \in Users, body \in AnyStatusBodies : PostChangeOrder(u, body) /\ Observe
    \/ \E u \in Users, id \in ChangeOrderIds, body \in AnyStatusBodies :
           PutChangeOrder(u, id, body) /\ Observe
    \/ Tick /\ Observe

SpecStatus == Init /\ [][NextStatus]_vars

\* ---------------------------------------------------------------------------
\* POST /api/projects and POST /api/cost-entries, from the request body to the
\* inserted row.  A decimal column is a string in the insert schema and a
\* timestamp column is a Date, so a JSON number for budget or amount and a JSON
\* string for entryDate do not parse.
\* ---------------------------------------------------------------------------
JsonString(v) == <<"string", v>>
JsonNumber(v) == <<"number", v>>

Restrict(f, K) == [k \in K |-> f[k]]

\* f, and f with one of its keys left out
WithoutOne(f) == {Restrict(f, K) : K \in {DOMAIN f} \cup {DOMAIN f \ {k} : k \in DOMAIN f}}

ProjectNumbers == {"P-1", "P-2"}

ProjectBodies ==
    {b @@ Field("createdBy", c, NoString) :
        b \in UNION {WithoutOne(f) :
                        f \in [name : {"Plant"}, projectNumber : ProjectNumbers,
                               budget : {JsonString(30), JsonNumber(30)},
                               projectType : {"commercial"}]},
        c \in Users \cup {NoString}}

CostEntryBodies ==
    {b @@ Field("enteredBy", c, NoString) :
        b \in UNION {WithoutOne(f) :
                        f \in [projectId : BodyProjectIds, costCodeId : {1},
                               description : {"wire"},
                               amount : {JsonString(10), JsonNumber(10)},
                               entryDate : {JsonDateString, DateObject(0)}]},
        c \in Users \cup {NoString}}

ProjectRequiredKeys == {"name", "projectNumber", "budget", "projectType", "createdBy"}
CostEntryRequiredKeys ==
    {"projectId", "costCodeId", "description", "amount", "entryDate", "enteredBy"}

\* insertProjectSchema.parse: TRUE when it does not throw
ProjectParseOk(data) ==
    /\ ProjectRequiredKeys \subseteq DOMAIN data
    /\ data.budget[1] = "string"

\* insertCostEntrySchema.parse: TRUE when it does not throw
CostEntryParseOk(data) ==
    /\ CostEntryRequiredKeys \subseteq DOMAIN data
    /\ data.amount[1] = "string"
    /\ data.entryDate[1] = "date"

\* the spread written the other way round: a createdBy of the body survives
ProjectData_BodyWins(userId, body) == body @@ ("createdBy" :> userId)

\* { ...req.body, createdBy: userId }
ProjectData(userId, body) == ("createdBy" :> userId) @@ body

\* { ...req.body, enteredBy: userId }
CostEntryData(userId, body) == ("enteredBy" :> userId) @@ body

\* projects.projectNumber is unique and projects.createdBy references users
ProjectInsertOk(data) ==
    /\ data.createdBy \in Users
    /\ \A p \in DOMAIN projects :
           "projectNumber" \in DOMAIN projects[p]
               => projects[p].projectNumber # data.projectNumber

PostProject(userId, body) ==
    LET data == ProjectData(userId, body)
        id == nextId.projects
        ok == ProjectParseOk(data) /\ ProjectInsertOk(data)
    IN  /\ id <= MaxProjects
        /\ IF ok
           THEN /\ projects' = Put(projects, id,
                                   [budget |-> data.budget[2],
                                    projectNumber |-> data.projectNumber,
                                    createdBy |-> data.createdBy])
                /\ nextId' = [nextId EXCEPT !.projects = @ + 1]
           ELSE UNCHANGED <<projects, nextId>>
        /\ resp' = IF ok
                   THEN [op |-> "POST /api/projects", user |-> userId, id |-> id,
                         body |-> body, code |-> 201]
                   ELSE [op |-> "POST /api/projects", user |-> userId, code |-> 500,
                         error |-> IF ProjectParseOk(data) THEN "constraint" ELSE "ZodError",
                         message |-> "Failed to create project"]
        /\ UNCHANGED <<costCodes, costEntries, changeOrders, now>>

PostCostEntry(userId, body) ==
    LET data == CostEntryData(userId, body)
        id == nextId.costEntries
        ok == /\ CostEntryParseOk(data)
              /\ CostEntryRefsOk(data)
              /\ data.enteredBy \in Users
    IN  /\ id <= MaxCostEntries
        /\ IF ok
           THEN /\ costEntries' = Put(costEntries, id,
                                      [projectId |-> data.projectId,
                                       costCodeId |-> data.costCodeId,
                                       amount |-> data.amount[2],
                                       entryDate |-> data.entryDate[2],
                                       enteredBy |-> data.enteredBy])
                /\ nextId' = [nextId EXCEPT !.costEntries = @ + 1]
           ELSE UNCHANGED <<costEntries, nextId>>
        /\ resp' = IF ok
                   THEN [op |-> "POST /api/cost-entries", user |-> userId, id |-> id,
                         body |-> body, code |-> 201]
                   ELSE [op |-> "POST /api/cost-entries", user |-> userId, code |-> 500,
                         error |-> IF CostEntryParseOk(data) THEN "constraint" ELSE "ZodError",
                         message |-> "Failed to create cost entry"]
        /\ UNCHANGED <<projects, costCodes, changeOrders, now>>

NextCreate ==
    \/ \E u \in Users, body \in ProjectBodies : PostProject(u, body) /\ Observe
    \/ createCostCode("labor", TRUE) /\ Observe
    \/ \E u \in Users, body \in CostEntryBodies : PostCostEntry(u, body) /\ Observe

SpecCreate == Init /\ [][NextCreate]_vars

\* ---------------------------------------------------------------------------
\* The status a PUT or DELETE route of projects and cost entries sends for the
\* outcome of its storage call: the catch block answers 500, res.json() 200
\* and the DELETE routes 204.
\* ---------------------------------------------------------------------------
RouteStatus(r) ==
    IF r.threw THEN 500
    ELSE IF r.op \in {"deleteProject", "deleteCostEntry"} THEN 204
    ELSE 200

\* ---------------------------------------------------------------------------
\* getCostCodes, getCostCodesByCategory and GET /api/cost-codes.  The SELECTs
\* have no ORDER BY: the result is the set of the rows that match.
\* ---------------------------------------------------------------------------
\* the SELECT without its isActive condition
getCostCodes_All == DOMAIN costCodes

getCostCodes == {c \in DOMAIN costCodes : costCodes[c].isActive}

getCostCodesByCategory(category) ==
    {c \in DOMAIN costCodes : costCodes[c].category = category /\ costCodes[c].isActive}

\* const costCodes = category ? getCostCodesByCategory(category) : getCostCodes()
GetCostCodes(category) ==
    /\ resp' = [op |-> "GET /api/cost-codes", category |-> category, code |-> 200,
                rows |-> IF category # NoString THEN getCostCodesByCategory(category)
                         ELSE getCostCodes]
    /\ UNCHANGED <<projects, costCodes, costEntries, changeOrders, nextId, now>>

NextCostCodes ==
    \/ \E c \in Categories, a \in BOOLEAN : createCostCode(c, a) /\ Observe
    \/ \E c \in Categories \cup {NoString} : GetCostCodes(c) /\ Observe

SpecCostCodes == Init /\ [][NextCostCodes]_vars

\* ---------------------------------------------------------------------------
\* PUT /api/change-orders/:id as the steps it runs in: the handler builds and
\* parses its data, then awaits storage.updateChangeOrder, one UPDATE
\* statement.  Other requests run while it waits.  putCalls holds the requests
\* that wait for their UPDATE; `overlapped` records (for the properties) that
\* another request for the same change order was waiting at the same time.
\* ---------------------------------------------------------------------------
CallSlots == 1..MaxInFlight

\* the handler up to its await
PutParse(userId, id, body) ==
    LET data == PutData(userId, body)
        slot == CHOOSE s \in CallSlots : s \notin DOMAIN putCalls
        others == {s \in DOMAIN putCalls : putCalls[s].id = id}
        call == [user |-> userId, id |-> id, body |-> body, data |-> data,
                 overlapped |-> others # {}]
    IN  /\ CallSlots \ DOMAIN putCalls # {}
        /\ IF ParseOk(data, TRUE)
           THEN /\ putCalls' = [s \in DOMAIN putCalls \cup {slot} |->
                                   IF s = slot THEN call
                                   ELSE IF s \in others
                                        THEN [putCalls[s] EXCEPT !.overlapped = TRUE]
                                        ELSE putCalls[s]]
                /\ resp' = [op |-> "await updateChangeOrder", user |-> userId, id |-> id]
           ELSE /\ resp' = [op |-> "PUT /api/change-orders/:id", user |-> userId,
                            id |-> id, code |-> 500]
                /\ UNCHANGED putCalls
        /\ UNCHANGED <<projects, costCodes, costEntries, changeOrders, nextId, now,
                       queryData>>
        /\ ObserveStore

\* an UPDATE that writes only while the row is still pending and a handler
\* that answers 409 otherwise
PutWrite_CompareAndSet(slot) ==
    LET call == putCalls[slot]
        hit == call.id \in DOMAIN changeOrders
        stale == hit /\ changeOrders[call.id].status # "pending"
    IN  /\ slot \in DOMAIN putCalls
        /\ IF stale THEN UNCHANGED changeOrders
           ELSE updateChangeOrder(call.id, Columns(call.data))
        /\ resp' = [op |-> "PUT /api/change-orders/:id", user |-> call.user,
                    id |-> call.id, body |-> call.body,
                    code |-> IF stale THEN 409 ELSE 200,
                    overlapped |-> call.overlapped]
        /\ putCalls' = Drop(putCalls, slot)
        /\ UNCHANGED <<projects, costCodes, costEntries, nextId, now, queryData>>
        /\ ObserveStore

\* the UPDATE of a waiting request and the response that follows it
PutWrite(slot) ==
    LET call == putCalls[slot]
        threw == /\ call.id \in DOMAIN changeOrders
                 /\ ~ChangeOrderRefsOk(Patched(changeOrders[call.id], Columns(call.data)))
    IN  /\ slot \in DOMAIN putCalls
        /\ updateChangeOrder(call.id, Columns(call.data))
        /\ resp' = IF threw
                   THEN [op |-> "PUT /api/change-orders/:id", user |-> call.user,
                         id |-> call.id, code |-> 500]
                   ELSE [op |-> "PUT /api/change-orders/:id", user |-> call.user,
                         id |-> call.id, body |-> call.body, code |-> 200,
                         overlapped |-> call.overlapped]
        /\ putCalls' = Drop(putCalls, slot)
        /\ UNCHANGED <<projects, costCodes, costEntries, nextId, now, queryData>>
        /\ ObserveStore

\* the bodies the approve and the reject request carry
DecisionBodies == [status : {"approved", "rejected"}]

NextConflict ==
    \/ \E b \in Budgets : nextId.projects \in BodyProjectIds /\ createProject(b) /\ Observe
    \/ \E p \in BodyProjectIds : PostChangeOrder("u1", [projectId |-> p]) /\ Observe
    \/ \E u \in Users, id \in ChangeOrderIds, body \in DecisionBodies : PutParse(u, id, body)
    \/ \E slot \in CallSlots : PutWrite(slot)
    \/ Tick /\ Observe

SpecConflict == Init /\ [][NextConflict]_vars

\* ---------------------------------------------------------------------------
\* Summaries of one project whose entries are booked on an active and on an
\* inactive cost code, next to the list of cost codes.
\* ---------------------------------------------------------------------------
NextInactive ==
    \/ \E b \in Budgets : nextId.projects \in BodyProjectIds /\ createProject(b) /\ Observe
    \/ \E c \in {"labor", "materials"} : createCostCode(c, c = "labor") /\ Observe
    \/ \E row \in [projectId : BodyProjectIds, costCodeId : CostCodeIds,
                      amount : Amounts, entryDate : {0}] :
           createCostEntry(row) /\ Observe
    \/ \E id \in CostEntryIds : deleteCostEntry(id) /\ Observe
    \/ \E id \in BodyProjectIds : getProjectCostSummary(id) /\ Observe
    \/ GetCostCodes(NoString) /\ Observe

SpecInactive == Init /\ [][NextInactive]_vars

\* ---------------------------------------------------------------------------
\* The cost summary asked for again and again, by a store opened on a
\* database that already holds a project, the three cost codes and one entry.
\* ---------------------------------------------------------------------------
StockedEntryId == MaxCostEntries + 1

InitStocked ==
    /\ projects = 1 :> [budget |-> 30]
    /\ costCodes = <<[category |-> "labor", isActive |-> TRUE],
                     [category |-> "materials", isActive |-> TRUE],
                     [category |-> "equipment", isActive |-> TRUE]>>
    /\ costEntries = StockedEntryId :> [projectId |-> 1, costCodeId |-> 3,
                                        amount |-> 40, entryDate |-> 0]
    /\ changeOrders = <<>>
    /\ nextId = [projects |-> 2, costEntries |-> 1]
    /\ now = 0
    /\ resp = [op |-> "none"]
    /\ summaryCall = [pc |-> "idle"]
    /\ putCalls = <<>>
    /\ queryData = [u \in Users |-> <<>>]

NextRepeat ==
    \/ \E row \in [projectId : {1}, costCodeId : {1, 2}, amount : Amounts,
                      entryDate : {0}] :
           createCostEntry(row) /\ Observe
    \/ \E id \in CostEntryIds : deleteCostEntry(id) /\ Observe
    \/ \E b \in RevisedBudgets : updateProject(1, b) /\ Observe
    \/ getProjectCostSummary(1) /\ Observe

SpecRepeat == InitStocked /\ [][NextRepeat]_vars

\* ---------------------------------------------------------------------------
\* The change orders page of the browser client (client/src/pages/
\* change-orders.tsx), one browser per user.  queryData[u] is the list the
\* page of user u last fetched and still displays: the status it shows for
\* each change order.  A successful update only invalidates the query; the
\* list is displayed as it was until the next fetch has answered.
\* ---------------------------------------------------------------------------
\* useQuery({ queryKey: ["/api/change-orders", ...] }) has answered
ClientFetch(user) ==
    /\ getChangeOrders(NoId)
    /\ queryData' = [queryData EXCEPT
                        ![user] = [id \in DOMAIN changeOrders |-> changeOrders[id].status]]
    /\ ObserveStore
    /\ UNCHANGED putCalls

\* the buttons rendered for every change order, whatever status is displayed
ClientClick_AnyStatus(user, id, status) ==
    /\ id \in DOMAIN queryData[user]
    /\ PutChangeOrder(user, id, [status |-> status])
    /\ ObserveStore
    /\ UNCHANGED <<putCalls, queryData>>

\* {changeOrder.status === "pending" && (...)}: a click on Approve or Reject,
\* handleStatusChange(id, status) and the PUT of { status } it sends
ClientClick(user, id, status) ==
    /\ id \in DOMAIN queryData[user]
    /\ queryData[user][id] = "pending"
    /\ PutChangeOrder(user, id, [status |-> status])
    /\ ObserveStore
    /\ UNCHANGED <<putCalls, queryData>>

\* the status each of the two buttons passes to handleStatusChange
ButtonStatuses == {"approved", "rejected"}

NextClient ==
    \/ \E b \in Budgets : nextId.projects \in BodyProjectIds /\ createProject(b) /\ Observe
    \/ \E u \in Users, p \in BodyProjectIds : PostChangeOrder(u, [projectId |-> p]) /\ Observe
    \/ \E u \in Users : ClientFetch(u)
    \/ \E u \in Users, id \in ChangeOrderIds, status \in ButtonStatuses :
           ClientClick(u, id, status)
    \/ Tick /\ Observe

SpecClient == Init /\ [][NextClient]_vars

Next ==
    \/ NextClient
    \/ NextRepeat
    \/ NextInactive
    \/ NextConflict
    \/ NextCostCodes
    \/ NextCreate
    \/ NextStatus
    \/ NextTotals
    \/ NextStamps
    \/ NextWorkflow
    \/ NextLookup
    \/ NextRecompute
    \/ NextLists
    \/ NextRoutes
    \/ NextReferences
    \/ NextCost
    \/ NextChangeOrders
    \/ NextRequestDate
    \/ NextSnapshot
    \/ \E id \in ProjectIds, b \in Budgets : updateProject(id, b) /\ Observe

Spec == Init /\ [][Next]_vars

\* ---------------------------------------------------------------------------
\* Properties of the change order workflow (checked under SpecChangeOrders,
\* SpecStamps, SpecWorkflow and SpecRequestDate)
\* ---------------------------------------------------------------------------
PostOp == "POST /api/change-orders"
PutOp == "PUT /api/change-orders/:id"

Created == resp.op = PostOp /\ resp.code = 201
Updated == resp.op = PutOp /\ resp.code = 200 /\ resp.id \in DOMAIN changeOrders

\* C1: once the status of a change order is approved or rejected, no later
\* request changes it.
C1_TerminalStatusIsFinal ==
    [][\A id \in DOMAIN changeOrders :
          changeOrders[id].status \in {"approved", "rejected"}
              => changeOrders'[id].status = changeOrders[id].status]_vars

\* C6: a change order created through POST /api/change-orders is stored with
\* status pending, whatever status the body supplies.
C6_CreatedPending == Created => changeOrders[resp.id].status = "pending"

\* C7: a change order created through POST /api/change-orders is stored with
\* requestedBy = the caller, a requestedBy of the body is overridden.
C7_RequestedByIsCaller == Created => changeOrders[resp.id].requestedBy = resp.user

C7_Witness ==
    /\ Created
    /\ "requestedBy" \in DOMAIN resp.body
    /\ resp.body.requestedBy # resp.user
    /\ changeOrders[resp.id].requestedBy = resp.user

\* C8: an update whose body has status approved stores approvedBy = the caller
\* and approvalDate = the current time, whatever approvedBy or approvalDate the
\* body carries.
C8_ApprovalStamped ==
    (Updated /\ "status" \in DOMAIN resp.body /\ resp.body.status = "approved")
        => /\ changeOrders[resp.id].approvedBy = resp.user
           /\ changeOrders[resp.id].approvalDate = now

C8_Witness ==
    /\ Updated
    /\ "status" \in DOMAIN resp.body /\ resp.body.status = "approved"
    /\ "approvedBy" \in DOMAIN resp.body /\ resp.body.approvedBy # resp.user
    /\ changeOrders[resp.id].approvedBy = resp.user
    /\ changeOrders[resp.id].approvalDate = now
    /\ now > 0

\* C9: in every reachable state a change order has approvedBy set if and only
\* if it has approvalDate set.
C9_ApprovalFieldsTogether ==
    \A id \in DOMAIN changeOrders :
        (changeOrders[id].approvedBy # Null) <=> (changeOrders[id].approvalDate # NullDate)

\* C10: in every reachable state a change order whose approvedBy or
\* approvalDate is set has status approved.
C10_ApprovalFieldsOnlyWhenApproved ==
    \A id \in DOMAIN changeOrders :
        (changeOrders[id].approvedBy # Null \/ changeOrders[id].approvalDate # NullDate)
            => changeOrders[id].status = "approved"

Approving ==
    Updated /\ "status" \in DOMAIN resp.body /\ resp.body.status = "approved"

C12_RejectKeepsApprovalFields ==
    [][(/\ resp'.op = PutOp /\ resp'.code = 200
        /\ resp'.id \in DOMAIN changeOrders
        /\ "status" \in DOMAIN resp'.body /\ resp'.body.status = "rejected")
       => /\ changeOrders'[resp'.id].status = "rejected"
          /\ changeOrders'[resp'.id].approvedBy = changeOrders[resp'.id].approvedBy
          /\ changeOrders'[resp'.id].approvalDate
                 = changeOrders[resp'.id].approvalDate]_vars

\* the requester of change order id asks for its approval and gets it
SelfApprove(id) ==
    /\ PutChangeOrder(changeOrders[id].requestedBy, id, [status |-> "approved"])
    /\ resp'.code = 200
    /\ changeOrders'[id].status = "approved"
    /\ changeOrders'[id].approvedBy = changeOrders'[id].requestedBy

\* C13: no check stands between a requester and the approval of their own
\* change order: in every reachable state the approval of a change order by
\* the identity that requested it can be performed and is stored.
C13_SelfApprovalAccepted ==
    \A id \in DOMAIN changeOrders : ENABLED SelfApprove(id)

C13_Witness ==
    /\ Approving
    /\ changeOrders[resp.id].status = "approved"
    /\ changeOrders[resp.id].requestedBy = resp.user
    /\ changeOrders[resp.id].approvedBy = changeOrders[resp.id].requestedBy

\* ---------------------------------------------------------------------------
\* Properties of the cost summary (checked under SpecCost, SpecTotals and
\* SpecLookup)
\* ---------------------------------------------------------------------------
Summarised == resp.op = "getProjectCostSummary" /\ resp.code = 200

\* the cost entries of a project, and those among them whose cost code has
\* a given category
EntriesOf(projectId) ==
    {e \in DOMAIN costEntries : costEntries[e].projectId = projectId}

EntriesIn(projectId, category) ==
    {e \in EntriesOf(projectId) :
        \E c \in DOMAIN costCodes :
            c = costEntries[e].costCodeId /\ costCodes[c].category = category}

\* C2: totalCost is the exact decimal sum of the amounts of the project's
\* cost entries (the number a decimal total of that value parses to).
C2_TotalCostIsExactSum ==
    Summarised => resp.summary.totalCost = NumberOfCents(SumAmount(EntriesOf(resp.id)))

\* Object.values(costByCategory) added up in property order
RECURSIVE SumValues(_, _, _)
SumValues(costByCategory, keys, i) ==
    IF i = 0 THEN DZero
    ELSE DAdd(SumValues(costByCategory, keys, i - 1), costByCategory[keys[i]])

\* C3: the values of costByCategory add up to totalCost.
C3_CategoriesAddUpToTotal ==
    Summarised =>
        /\ DOMAIN resp.summary.costByCategory
               = {resp.summary.keys[i] : i \in DOMAIN resp.summary.keys}
        /\ SumValues(resp.summary.costByCategory, resp.summary.keys,
                     Len(resp.summary.keys)) = resp.summary.totalCost

C3_Witness ==
    /\ Summarised
    /\ Len(resp.summary.keys) >= 2
    /\ DLess(resp.summary.costByCategory[resp.summary.keys[1]], resp.summary.totalCost)

\* C4: budgetVariance is the project's budget minus the totalCost of the same
\* summary; it is the budget when there are no entries and negative exactly
\* when totalCost exceeds the budget.
C4_VarianceIsBudgetMinusTotal ==
    Summarised =>
        LET budget == NumberOfCents(projects[resp.id].budget)
        IN  /\ resp.summary.budgetVariance = DSub(budget, resp.summary.totalCost)
            /\ EntriesOf(resp.id) = {} => resp.summary.budgetVariance = budget
            /\ resp.summary.budgetVariance.neg <=> DLess(budget, resp.summary.totalCost)

C4_Witness ==
    /\ Summarised
    /\ EntriesOf(resp.id) # {}
    /\ resp.summary.budgetVariance.neg
    /\ DLess(NumberOfCents(projects[resp.id].budget), resp.summary.totalCost)

\* C5: a category is a key of costByCategory exactly when the project has an
\* entry whose cost code has that category, and its value is the sum of the
\* amounts of those entries.
C5_CategoriesPresentIffEntries ==
    Summarised =>
        /\ DOMAIN resp.summary.costByCategory
               = {c \in Categories : EntriesIn(resp.id, c) # {}}
        /\ \A c \in DOMAIN resp.summary.costByCategory :
               resp.summary.costByCategory[c]
                   = NumberOfCents(SumAmount(EntriesIn(resp.id, c)))

C5_Witness ==
    /\ Summarised
    /\ DOMAIN resp.summary.costByCategory # {}
    /\ \E c \in Categories \ DOMAIN resp.summary.costByCategory :
           \E e \in DOMAIN costEntries :
               /\ costEntries[e].projectId # resp.id
               /\ costCodes[costEntries[e].costCodeId].category = c

\* C15: getProjectCostSummary for an id that resolves to no project throws
\* "Project not found", answers without a summary and leaves every table as
\* it was.
C15_MissingProjectFails ==
    [][(resp'.op = "getProjectCostSummary" /\ resp'.id \notin DOMAIN projects)
       => /\ resp'.code = 500
          /\ resp'.error = "Project not found"
          /\ "summary" \notin DOMAIN resp'
          /\ UNCHANGED <<projects, costCodes, costEntries, changeOrders>>]_vars

C15_Witness ==
    /\ resp.op = "getProjectCostSummary"
    /\ resp.id \notin DOMAIN projects
    /\ resp.code = 500
    /\ \E e \in DOMAIN costEntries : costEntries[e].projectId # resp.id

\* ---------------------------------------------------------------------------
\* Properties of the lists (checked under SpecLists)
\* ---------------------------------------------------------------------------
Listed(op) == resp.op = op

\* the rows of a list are exactly the rows S, each once
ExactlyRows(rows, S) ==
    /\ {rows[i] : i \in DOMAIN rows} = S
    /\ Len(rows) = Cardinality(S)

\* rows that both carry a date come newest first
NewestFirst(rows, table, column) ==
    \A i, j \in DOMAIN rows :
        (i < j /\ table[rows[i]][column] # NullDate /\ table[rows[j]][column] # NullDate)
            => table[rows[i]][column] >= table[rows[j]][column]

\* C19: getCostEntries and getChangeOrders return exactly the rows of the
\* project asked for, or all rows when none is asked for, ordered by entryDate
\* (requestDate for change orders) descending.
C19_ListsFilteredNewestFirst ==
    /\ Listed("getCostEntries") =>
           /\ ExactlyRows(resp.rows,
                  {e \in DOMAIN costEntries :
                      resp.projectId = NoId \/ costEntries[e].projectId = resp.projectId})
           /\ NewestFirst(resp.rows, costEntries, "entryDate")
    /\ Listed("getChangeOrders") =>
           /\ ExactlyRows(resp.rows,
                  {c \in DOMAIN changeOrders :
                      resp.projectId = NoId \/ changeOrders[c].projectId = resp.projectId})
           /\ NewestFirst(resp.rows, changeOrders, "requestDate")

C19_Witness ==
    /\ Listed("getCostEntries")
    /\ resp.projectId # NoId
    /\ Len(resp.rows) = 2
    /\ resp.rows[1] > resp.rows[2]
    /\ costEntries[resp.rows[1]].entryDate > costEntries[resp.rows[2]].entryDate
    /\ changeOrders # <<>>

\* ---------------------------------------------------------------------------
\* Properties of the references between rows (checked under SpecReferences)
\* ---------------------------------------------------------------------------
\* C17: every cost entry references a project and a cost code that exist, and
\* every change order references a project that exists.
C17_NoOrphans ==
    /\ \A e \in DOMAIN costEntries :
           /\ costEntries[e].projectId \in DOMAIN projects
           /\ costEntries[e].costCodeId \in DOMAIN costCodes
    /\ \A c \in DOMAIN changeOrders : changeOrders[c].projectId \in DOMAIN projects

C17_Witness ==
    /\ resp.op = "updateCostEntry"
    /\ resp.threw
    /\ resp.id \in DOMAIN costEntries
    /\ changeOrders # <<>>

\* C18: deleting a project that has cost entries or change orders fails and
\* leaves the project and its dependents as they were, or removes them all;
\* it never removes the project alone.
C18_DeleteWithDependents ==
    [][(resp'.op = "deleteProject" /\ resp'.id \in DOMAIN projects
        /\ \/ \E e \in DOMAIN costEntries : costEntries[e].projectId = resp'.id
           \/ \E c \in DOMAIN changeOrders : changeOrders[c].projectId = resp'.id)
       => \/ /\ resp'.threw
             /\ UNCHANGED <<projects, costEntries, changeOrders>>
          \/ /\ resp'.id \notin DOMAIN projects'
             /\ \A e \in DOMAIN costEntries' : costEntries'[e].projectId # resp'.id
             /\ \A c \in DOMAIN changeOrders' :
                    changeOrders'[c].projectId # resp'.id]_vars

C18_Witness ==
    /\ resp.op = "deleteProject"
    /\ resp.threw
    /\ resp.id \in DOMAIN projects
    /\ \E c \in DOMAIN changeOrders : changeOrders[c].projectId = resp.id
    /\ \A e \in DOMAIN costEntries : costEntries[e].projectId # resp.id

\* ---------------------------------------------------------------------------
\* Properties of the routes (checked under SpecRoutes)
\* ---------------------------------------------------------------------------
\* a request without a session that changes a table or is answered with
\* anything but the bare 401
UnauthenticatedEffect ==
    /\ Request(NoSession)
    /\ \/ <<projects, costCodes, costEntries, changeOrders>>'
              # <<projects, costCodes, costEntries, changeOrders>>
       \/ resp'.code # 401
       \/ DOMAIN resp' # {"op", "code", "message"}

WriteDone(op) == resp.op = op /\ ~resp.threw

SummaryNext == resp'.op = "getProjectCostSummary" /\ resp'.code = 200

\* C20: a cost summary or a list asked for right after a cost entry was
\* created, updated or deleted, or a budget was updated, reflects that write:
\* the written entry is counted with its new amount under its new category,
\* the new budget is the one the variance is taken from, and a deleted entry
\* is gone from the table, from every total and from every list.
C20_ReadsReflectWrites ==
    [][/\ (WriteDone("deleteCostEntry") /\ (SummaryNext \/ resp'.op = "getCostEntries"))
           => resp.id \notin DOMAIN costEntries
       /\ (WriteDone("deleteCostEntry") /\ resp'.op = "getCostEntries")
           => \A i \in DOMAIN resp'.rows : resp'.rows[i] # resp.id
       /\ ((WriteDone("createCostEntry") \/ WriteDone("updateCostEntry")) /\ SummaryNext
             /\ resp.id \in DOMAIN costEntries
             /\ costEntries[resp.id].projectId = resp'.id)
           => LET c == costCodes[costEntries[resp.id].costCodeId].category
              IN  /\ c \in DOMAIN resp'.summary.costByCategory
                  /\ resp'.summary.costByCategory[c]
                         = NumberOfCents(SumAmount(EntriesIn(resp'.id, c)))
       /\ ((WriteDone("createCostEntry") \/ WriteDone("updateCostEntry")) /\
             resp'.op = "getCostEntries" /\ resp.id \in DOMAIN costEntries
             /\ resp'.projectId \in {NoId, costEntries[resp.id].projectId})
           => \E i \in DOMAIN resp'.rows : resp'.rows[i] = resp.id
       /\ (WriteDone("updateProject") /\ SummaryNext /\ resp.id = resp'.id)
           => resp'.summary.budgetVariance
                  = DSub(NumberOfCents(projects[resp.id].budget),
                         resp'.summary.totalCost)
       /\ SummaryNext
           => DOMAIN resp'.summary.costByCategory
                  = {c \in Categories : EntriesIn(resp'.id, c) # {}}]_vars

C20_Witness ==
    /\ Summarised
    /\ EntriesOf(resp.id) # {}
    /\ nextId.costEntries > Cardinality(DOMAIN costEntries) + 1
    /\ projects[resp.id].budget \in RevisedBudgets

\* ---------------------------------------------------------------------------
\* Properties of the cost summary next to other requests (SpecSnapshot)
\* ---------------------------------------------------------------------------
SummarisedInFlight == Summarised /\ "used" \in DOMAIN resp

\* C14: the project row and the category sums a cost summary was computed
\* from were both held by one state of the store that existed during the call.
C14_SummaryOfOneSnapshot ==
    SummarisedInFlight => resp.used \in resp.snapshots

\* ---------------------------------------------------------------------------
\* Properties of the stored status values (checked under SpecStatus)
\* ---------------------------------------------------------------------------
\* C21: in every reachable state the status of every change order is one of
\* pending, approved, rejected.
C21_StatusInEnum ==
    \A id \in DOMAIN changeOrders : changeOrders[id].status \in Statuses

\* ---------------------------------------------------------------------------
\* Properties of the create routes (checked under SpecCreate)
\* ---------------------------------------------------------------------------
CreatedProject == resp.op = "POST /api/projects" /\ resp.code = 201
CreatedCostEntry == resp.op = "POST /api/cost-entries" /\ resp.code = 201

\* C22: a project is stored with createdBy = the caller and a cost entry with
\* enteredBy = the caller, whatever createdBy or enteredBy the body carries.
C22_CreatorIsCaller ==
    /\ CreatedProject => projects[resp.id].createdBy = resp.user
    /\ CreatedCostEntry => costEntries[resp.id].enteredBy = resp.user

C22_Witness ==
    /\ CreatedProject
    /\ "createdBy" \in DOMAIN resp.body
    /\ resp.body.createdBy # resp.user
    /\ projects[resp.id].createdBy = resp.user

\* a create request whose body did not pass its insert schema
RefusedBySchemaNext ==
    /\ resp'.op \in {"POST /api/projects", "POST /api/cost-entries"}
    /\ "error" \in DOMAIN resp'
    /\ resp'.error = "ZodError"

\* C25: a create request with a malformed or missing required field is
\* answered with a 4xx status, not with the 500 of an internal failure, and
\* stores no row.
C25_ValidationIsClientError ==
    [][RefusedBySchemaNext
         => /\ resp'.code \in 400..499
            /\ UNCHANGED <<projects, costCodes, costEntries, changeOrders>>]_vars

\* ---------------------------------------------------------------------------
\* Properties of requests that name a row (checked under SpecRoutes)
\* ---------------------------------------------------------------------------
\* an update or a delete that reached its handler with an id no row has
MissingTargetNext ==
    \/ resp'.op \in {"updateProject", "deleteProject"} /\ resp'.id \notin DOMAIN projects
    \/ resp'.op \in {"updateCostEntry", "deleteCostEntry"}
           /\ resp'.id \notin DOMAIN costEntries
    \/ resp'.op = PutOp /\ "id" \in DOMAIN resp' /\ resp'.id \notin DOMAIN changeOrders

StatusSent(r) == IF "code" \in DOMAIN r THEN r.code ELSE RouteStatus(r)

\* C23: an update or delete of a project, cost entry or change order that
\* does not exist is answered with a not-found error (404) and changes no
\* table.
C23_MissingTargetNotFound ==
    [][MissingTargetNext
         => /\ StatusSent(resp') = 404
            /\ UNCHANGED <<projects, costCodes, costEntries, changeOrders>>]_vars

\* ---------------------------------------------------------------------------
\* Properties of the read of one project (checked under SpecLookup)
\* ---------------------------------------------------------------------------
\* C24: for an id no project has, getProject returns undefined without
\* throwing, GET /api/projects/:id answers 404 "Project not found", and no
\* table changes.
C24_MissingProjectIs404 ==
    [][(resp'.op = "GET /api/projects/:id" /\ resp'.id \notin DOMAIN projects)
         => /\ getProject(resp'.id) = Undefined
            /\ resp'.code = 404
            /\ resp'.message = "Project not found"
            /\ DOMAIN resp' = {"op", "id", "code", "message"}
            /\ UNCHANGED <<projects, costCodes, costEntries, changeOrders>>]_vars

C24_Witness ==
    /\ resp.op = "GET /api/projects/:id"
    /\ resp.code = 404
    /\ resp.id \notin DOMAIN projects
    /\ projects # <<>>

\* ---------------------------------------------------------------------------
\* Properties of the cost code lists (checked under SpecCostCodes)
\* ---------------------------------------------------------------------------
ListedCostCodes == resp.op = "GET /api/cost-codes" /\ resp.code = 200

\* C26: the list without a category holds exactly the cost codes whose
\* isActive is true, the list for category c exactly the active cost codes of
\* category c, and no list holds an inactive cost code.
C26_OnlyActiveCostCodes ==
    ListedCostCodes =>
        /\ resp.category = NoString
               => resp.rows = {c \in DOMAIN costCodes : costCodes[c].isActive = TRUE}
        /\ resp.category # NoString
               => resp.rows = {c \in DOMAIN costCodes :
                                  /\ costCodes[c].isActive = TRUE
                                  /\ costCodes[c].category = resp.category}
        /\ \A c \in resp.rows : costCodes[c].isActive

C26_Witness ==
    /\ ListedCostCodes
    /\ resp.category = NoString
    /\ resp.rows # {}
    /\ \E c \in DOMAIN costCodes : ~costCodes[c].isActive /\ c \notin resp.rows

\* ---------------------------------------------------------------------------
\* Properties of requests for one change order that run at the same time
\* (checked under SpecConflict)
\* ---------------------------------------------------------------------------
\* the UPDATE of a request for a stored change order was run in this step
WrittenNext ==
    /\ resp'.op = PutOp
    /\ putCalls' # putCalls
    /\ resp'.id \in DOMAIN changeOrders

\* C27: whatever the status of the row by then, the UPDATE of an approve or a
\* reject request is applied and answered with 200, never with a conflict:
\* after each write the status is the one that write carried, so of two
\* requests that waited together the one written last decides.
C27_LastWriteWins ==
    [][WrittenNext
         => /\ resp'.code = 200
            /\ changeOrders'[resp'.id].status = resp'.body.status]_vars

\* both requests waited together, the approval was written first and the
\* rejection last
C27_Witness ==
    /\ resp.op = PutOp /\ resp.code = 200
    /\ "overlapped" \in DOMAIN resp /\ resp.overlapped
    /\ putCalls = <<>>
    /\ resp.id \in DOMAIN changeOrders
    /\ resp.body.status = "rejected"
    /\ changeOrders[resp.id].status = "rejected"
    /\ changeOrders[resp.id].approvedBy # Null

\* ---------------------------------------------------------------------------
\* Properties of the cost summary and inactive cost codes (SpecInactive)
\* ---------------------------------------------------------------------------
\* the entries of a project that are booked on an inactive cost code
InactiveEntries(projectId) ==
    {e \in EntriesOf(projectId) : ~costCodes[costEntries[e].costCodeId].isActive}

\* C28: an entry booked on an inactive cost code is summed like any other:
\* its category is a key of costByCategory whose value is the sum of all the
\* project's entries of that category, that value is part of totalCost, and
\* the cost code itself is not in the list of cost codes.
C28_InactiveCodeStillSummed ==
    Summarised =>
        \A e \in InactiveEntries(resp.id) :
            LET code == costEntries[e].costCodeId
                c == costCodes[code].category
            IN  /\ c \in DOMAIN resp.summary.costByCategory
                /\ e \in EntriesIn(resp.id, c)
                /\ resp.summary.costByCategory[c]
                       = NumberOfCents(SumAmount(EntriesIn(resp.id, c)))
                /\ \E i \in DOMAIN resp.summary.keys : resp.summary.keys[i] = c
                /\ SumValues(resp.summary.costByCategory, resp.summary.keys,
                             Len(resp.summary.keys)) = resp.summary.totalCost
                /\ ~DLess(resp.summary.totalCost, resp.summary.costByCategory[c])
                /\ code \notin getCostCodes
                /\ code \notin getCostCodesByCategory(c)

C28_Witness ==
    /\ Summarised
    /\ InactiveEntries(resp.id) # {}
    /\ EntriesOf(resp.id) \ InactiveEntries(resp.id) # {}
    /\ Len(resp.summary.keys) = 2

\* ---------------------------------------------------------------------------
\* Properties of repeated cost summaries (checked under SpecRepeat)
\* ---------------------------------------------------------------------------
\* C29: a cost summary changes no table, and a cost summary that follows a
\* cost summary of the same project with nothing in between returns the same
\* totalCost, costByCategory and budgetVariance.
C29_SummaryReadOnlyDeterministic ==
    [][/\ resp'.op = "getProjectCostSummary"
           => UNCHANGED <<projects, costCodes, costEntries, changeOrders>>
       /\ (Summarised /\ SummaryNext /\ resp'.id = resp.id)
           => /\ resp'.summary.totalCost = resp.summary.totalCost
              /\ resp'.summary.costByCategory = resp.summary.costByCategory
              /\ resp'.summary.budgetVariance = resp.summary.budgetVariance]_vars

\* ---------------------------------------------------------------------------
\* Properties of the browser client (checked under SpecClient)
\* ---------------------------------------------------------------------------
\* the client has sent a PUT for a stored change order in this step
ClientPutNext == resp'.op = PutOp /\ resp'.id \in DOMAIN changeOrders

\* C30 as stated: no PUT the client sends asks for a change of a change order
\* whose stored status is approved or rejected.
C30_NoRequestOutOfTerminal ==
    [][ClientPutNext => changeOrders[resp'.id].status = "pending"]_vars

\* C30 amended: every PUT the client sends is for a change order its page
\* displays as pending, and its body is exactly { status } with status
\* approved or rejected.
C30_RequestsOnlyForDisplayedPending ==
    [][ClientPutNext
         => /\ resp'.id \in DOMAIN queryData[resp'.user]
            /\ queryData[resp'.user][resp'.id] = "pending"
            /\ DOMAIN resp'.body = {"status"}
            /\ resp'.body.status \in ButtonStatuses]_vars

\* a rejection sent from a page that still displays pending for a change
\* order the other user has approved
C30_Witness ==
    /\ resp.op = PutOp /\ resp.code = 200
    /\ resp.id \in DOMAIN changeOrders
    /\ resp.body.status = "rejected"
    /\ changeOrders[resp.id].status = "rejected"
    /\ changeOrders[resp.id].approvedBy \notin {Null, resp.user}
    /\ queryData[resp.user][resp.id] = "pending"

====
